---- MODULE Spec2Model ----
(***************************************************************************)
(* Model of Trombone_3D_Live_04_05_2011.cpp: the polling loop of a         *)
(* trombone-like MIDI controller.  A Loop step is one execution of loop()  *)
(* up to its delay(50): panic handling, meta-key handling, sensor reads    *)
(* and the note life-cycle branches with their gated controller messages.  *)
(* A Delay step is the delay(50) that ends it.                             *)
(***************************************************************************)
EXTENDS Integers, Sequences, FiniteSets

VARIABLES
    currentNote,       \* int currentNote: MIDI note sounding, -1 = none
    currentPitchBend,  \* int currentPitchBend: last pitch bend sent
    currentVolume,     \* int currentVolume: last breath value sent
    currentXValue,     \* int currentXValue: last X controller value sent
    currentYValue,     \* int currentYValue: last Y controller value sent
    metaMode,          \* boolean metaMode
    metaValue,         \* unsigned char metaValue
    ccSendTime,        \* long ccSendTime
    now,               \* millis()
    pc,                \* "loop": at the top of loop(); "delay": at its delay(50)
    out,               \* messages handed to MidiUart by this loop() so far, in order
    tick,              \* readings and locals of this loop(), and the state it started from
    held,              \* notes with a channel-0 note-on not yet followed by their note-off
    lastOn,            \* note of the most recent channel-0 note-on, -1 before the first
    orderly,           \* so far every channel-0 note-on came with no note held, and
                       \* every channel-0 note-off named the note of the last note-on
    sent,              \* value carried by the last message emitted for each of pitch
                       \* bend, breath, X and Y; 8191, 0, 0, 0 while none was emitted
    metaRun,           \* chord read by the loop() before this one if the meta switch
                       \* was pressed in it, else -1
    dPc, dVal, dMem, dRes, \* decoder call: position, pattern, memory past the table, result
    dPrev,                 \* pattern and result of the decoder call before
    fPc, fKind, fIn,       \* call of one mapping or send function: position, function, arguments
    fOut,                  \* values the function returned
    fS                     \* last-sent values and messages after a send function

vars == <<currentNote, currentPitchBend, currentVolume, currentXValue, currentYValue,
          metaMode, metaValue, ccSendTime, now, pc, out, tick, held, lastOn, orderly, metaRun,
          sent, dPc, dVal, dMem, dRes, dPrev, fPc, fKind, fIn, fOut, fS>>

progVars == <<currentNote, currentPitchBend, currentVolume, currentXValue, currentYValue,
              metaMode, metaValue, ccSendTime, now, pc, out, tick, held, lastOn,
              orderly, metaRun, sent>>

decVars == <<dPc, dVal, dMem, dRes, dPrev>>

fnVars == <<fPc, fKind, fIn, fOut, fS>>

(***************************************************************************)
(* Bounds of the model.                                                    *)
(***************************************************************************)
MaxLoops == 3   \* loop() runs at most this many times
PairMargin == 4   \* readings this far outside a mapping's input range are paired
GateSpan == 12    \* a send function is tried on values this far from the last
QuantMargin == 3  \* quantizeSlide is called on values this far outside 0..8192
AnalogMax == 1023 \* largest reading of a 10-bit analogRead()

(***************************************************************************)
(* Program constants.                                                      *)
(***************************************************************************)
FUNDAMENTAL == 48
OT_1 == 55
OT_2 == 60
OT_3 == 64
OT_4 == 67
OT_5 == 70
OT_6 == 72
OT_7 == 74
OT_NONE == -1

overtones == <<FUNDAMENTAL, OT_1, OT_2, OT_3, OT_4, OT_5, OT_6, OT_7>>
\* The pattern table with the entries of overtones 4 and 5 exchanged.
overtone_sw_values_Swapped == <<0, 1, 3, 7, 14, 15, 12, 8>>
overtone_sw_values == <<0, 1, 3, 7, 15, 14, 12, 8>>
TableLen == 8       \* declared length of overtones[] and overtone_sw_values[]
SizeofInt == 2      \* sizeof(int) of the Arduino (AVR) build
\* the loop bound of the decoder: sizeof(overtone_sw_values), a byte count
SizeofSwTable == TableLen * SizeofInt

MIDI_BREATH_CC == 2
X_CC == 16
Y_CC == 17
MIN_CC_INTERVAL == 10
PB_SEND_THRESHOLD == 10
VOLUME_SEND_THRESHOLD == 1
NOTE_ON_VOLUME_THRESHOLD == 60
VOLUME_MAX_VALUE == 500
LPOT_NO_TOUCH_VALUE == 1010
LPOT_SLIDE_POS_1 == 144
LPOT_SLIDE_POS_7 == 350
MAX_PITCH_BEND_DOWN == 0
PITCH_BEND_NEUTRAL == 16383 \div 2
slide_quant_mode == 0
NumMidiNotes == 128     \* allNotesOff covers notes 0 .. 127
NOTE_VELOCITY == 127    \* velocity of every note-on
PANIC_CHANNEL == 1      \* channel argument of allNotesOff's note-offs
META_CHANNEL == 1       \* channel argument of sendMetaCommand
NOTE_CHANNEL == 0       \* channel argument of the note branches of loop()
LOOP_DELAY == 50        \* delay(50) at the end of loop()

(***************************************************************************)
(* Inputs: the readings one loop() can see.                                *)
(***************************************************************************)
ChordPatterns == 0..15
Chords == {0, 1, 5}                 \* two table patterns and one absent from the table
SlideReadings == {144, 350, 1023}   \* 1st position, 7th position, not touched
BreathReadings == {0, 64, 500}      \* below threshold, softest (volume 1), full
XYReadings == {<<0, 0>>, <<512, 300>>}
\* A word that equals no chord pattern.
NoWord == 255
\* Contents of the SizeofSwTable - TableLen words the decoder reads past the end
\* of overtone_sw_values: nothing matching, or one word, at one of the given
\* places, equal to a pattern the table lacks.
MemWords == {5}
NoMem == [i \in TableLen..(SizeofSwTable - 1) |-> NoWord]
MemChoices(places) ==
    {NoMem} \cup { [NoMem EXCEPT ![k] = w] : k \in places, w \in MemWords }
\* Values a read of overtones[] past its end can produce.
OobNotes == {-1, 0}

(***************************************************************************)
(* Arithmetic helpers.                                                     *)
(***************************************************************************)
Abs(a) == IF a < 0 THEN -a ELSE a

\* C integer division (truncation toward zero).
CDiv(a, b) ==
    IF (a >= 0) = (b > 0) THEN Abs(a) \div Abs(b) ELSE -(Abs(a) \div Abs(b))

\* Arduino map(): (x - in_min) * (out_max - out_min) / (in_max - in_min) + out_min
map(x, in_min, in_max, out_min, out_max) ==
    CDiv((x - in_min) * (out_max - out_min), in_max - in_min) + out_min

constrain(x, lo, hi) == IF x < lo THEN lo ELSE IF x > hi THEN hi ELSE x

(***************************************************************************)
(* Sensor mappings.                                                        *)
(***************************************************************************)
\* quantizeSlide returning the upper edge of the second band.
quantizeSlide_BandEdge(val) ==
    IF val >= 0 /\ val <= 683 THEN 0
    ELSE IF val >= 684 /\ val <= 2048 THEN 2048
    ELSE IF val >= 2049 /\ val <= 3413 THEN 2731
    ELSE IF val >= 3414 /\ val <= 4779 THEN 4096
    ELSE IF val >= 4780 /\ val <= 6144 THEN 5461
    ELSE IF val >= 6145 /\ val <= 7509 THEN 6827
    ELSE IF val >= 7510 /\ val <= 8192 THEN 8191
    ELSE 0

quantizeSlide(val) ==
    IF val >= 0 /\ val <= 683 THEN 0
    ELSE IF val >= 684 /\ val <= 2048 THEN 1365
    ELSE IF val >= 2049 /\ val <= 3413 THEN 2731
    ELSE IF val >= 3414 /\ val <= 4779 THEN 4096
    ELSE IF val >= 4780 /\ val <= 6144 THEN 5461
    ELSE IF val >= 6145 /\ val <= 7509 THEN 6827
    ELSE IF val >= 7510 /\ val <= 8192 THEN 8191
    ELSE 0

\* getPitchBendFromLinearPot without the coercion to the slide stops.
getPitchBendFromLinearPot_NoStops(slideVal, quant) ==
    IF slideVal > LPOT_NO_TOUCH_VALUE THEN -1
    ELSE LET m == map(slideVal, LPOT_SLIDE_POS_1, LPOT_SLIDE_POS_7,
                      PITCH_BEND_NEUTRAL, MAX_PITCH_BEND_DOWN)
             pbVal == IF m < 0 THEN 0 ELSE m
         IN IF quant # 0 THEN quantizeSlide(pbVal) ELSE pbVal

\* slideVal is analogRead(SLIDE_LPOT_PIN); -1 means the slide is not touched.
getPitchBendFromLinearPot(slideVal, quant) ==
    IF slideVal > LPOT_NO_TOUCH_VALUE THEN -1
    ELSE LET c1 == IF slideVal > LPOT_SLIDE_POS_7 THEN LPOT_SLIDE_POS_7 ELSE slideVal
             c2 == IF c1 < LPOT_SLIDE_POS_1 THEN LPOT_SLIDE_POS_1 ELSE c1
             m  == map(c2, LPOT_SLIDE_POS_1, LPOT_SLIDE_POS_7,
                       PITCH_BEND_NEUTRAL, MAX_PITCH_BEND_DOWN)
             pbVal == IF m < 0 THEN 0 ELSE m
         IN IF quant # 0 THEN quantizeSlide(pbVal) ELSE pbVal

getPitchBend(slideVal) == getPitchBendFromLinearPot(slideVal, slide_quant_mode)

\* getVolumeFromBreathSensor without constrain().
getVolumeFromBreathSensor_NoConstrain(volRawVal) ==
    IF volRawVal < NOTE_ON_VOLUME_THRESHOLD THEN 0
    ELSE map(volRawVal, NOTE_ON_VOLUME_THRESHOLD, VOLUME_MAX_VALUE, 0, 127)

\* volRawVal is analogRead(BREATH_PIN).
getVolumeFromBreathSensor(volRawVal) ==
    IF volRawVal < NOTE_ON_VOLUME_THRESHOLD THEN 0
    ELSE map(constrain(volRawVal, NOTE_ON_VOLUME_THRESHOLD, VOLUME_MAX_VALUE),
             NOTE_ON_VOLUME_THRESHOLD, VOLUME_MAX_VALUE, 0, 127)

getVolume(volRawVal) == getVolumeFromBreathSensor(volRawVal)

(***************************************************************************)
(* Chord decoding.  The search loop runs i over 0 .. sizeof(table) - 1;    *)
(* the words at indices TableLen and above lie past the end of the array,  *)
(* and mem gives what the build finds there.                               *)
(***************************************************************************)
SwTableWord(i, mem) == IF i < TableLen THEN overtone_sw_values[i + 1] ELSE mem[i]

RECURSIVE SearchFrom(_, _, _, _)
SearchFrom(val, i, mem, limit) ==
    IF i >= limit THEN [ot |-> -1, reads |-> i]
    ELSE IF val = SwTableWord(i, mem) THEN [ot |-> i, reads |-> i + 1]
    ELSE SearchFrom(val, i + 1, mem, limit)

\* Result of the search and the number of table words it read.
DecodeRun(val, mem) == SearchFrom(val, 0, mem, SizeofSwTable)

getOvertoneFromOvertoneSwitches(val, mem) == DecodeRun(val, mem).ot

\* overtones[ot]; oob is what a read past the end of overtones[] yields.
OvertoneAt(ot, oob) == IF ot < TableLen THEN overtones[ot + 1] ELSE oob

\* getMIDINote giving "no note" for a pattern that matches nothing.
getMIDINote_NoneOnNoMatch(ot, cur, oob) ==
    IF -1 = ot THEN -1 ELSE OvertoneAt(ot, oob)

getMIDINote(ot, cur, oob) == IF -1 = ot THEN cur ELSE OvertoneAt(ot, oob)

(***************************************************************************)
(* MIDI output.  s is [pb, vol, x, y, out]: the four last-sent values and  *)
(* the messages emitted so far in this loop().                             *)
(***************************************************************************)
Msg(type, chan, d1, d2) == [type |-> type, chan |-> chan, d1 |-> d1, d2 |-> d2]

sendNoteOn(s, note, vel, chan) ==
    [s EXCEPT !.out = Append(@, Msg("on", chan, note, vel))]

sendNoteOff(s, note, vel, chan) ==
    [s EXCEPT !.out = Append(@, Msg("off", chan, note, vel))]

\* sendPitchBend sending also at a difference equal to the threshold.
sendPitchBend_AtThreshold(s, pitchBend) ==
    IF -1 # pitchBend /\ Abs(s.pb - pitchBend) >= PB_SEND_THRESHOLD
    THEN [s EXCEPT !.pb = pitchBend, !.out = Append(@, Msg("pb", 0, pitchBend, 0))]
    ELSE s

\* sendPitchBend without the test for the "not touched" value.
sendPitchBend_SendsUntouched(s, pitchBend) ==
    IF Abs(s.pb - pitchBend) > PB_SEND_THRESHOLD
    THEN [s EXCEPT !.pb = pitchBend, !.out = Append(@, Msg("pb", 0, pitchBend, 0))]
    ELSE s

sendPitchBend(s, pitchBend) ==
    IF -1 # pitchBend /\ Abs(s.pb - pitchBend) > PB_SEND_THRESHOLD
    THEN [s EXCEPT !.pb = pitchBend, !.out = Append(@, Msg("pb", 0, pitchBend, 0))]
    ELSE s

sendBreathController(s, volume, chan) ==
    IF Abs(s.vol - volume) > VOLUME_SEND_THRESHOLD
    THEN [s EXCEPT !.vol = volume, !.out = Append(@, Msg("cc", chan, MIDI_BREATH_CC, volume))]
    ELSE s

sendXYControllers(s, x, y, chan) ==
    LET mappedXValue == map(x, 0, 1024, 0, 127)
        mappedYValue == map(y, 0, 1024, 0, 127)
        s1 == IF Abs(s.x - mappedXValue) > VOLUME_SEND_THRESHOLD
              THEN [s EXCEPT !.x = mappedXValue,
                             !.out = Append(@, Msg("cc", chan, X_CC, mappedXValue))]
              ELSE s
    IN IF Abs(s1.y - mappedYValue) > VOLUME_SEND_THRESHOLD
       THEN [s1 EXCEPT !.y = mappedYValue,
                       !.out = Append(@, Msg("cc", chan, Y_CC, mappedYValue))]
       ELSE s1

\* allNotesOff with the loop running over 1 .. 128.
allNotesOff_FromOne(s) ==
    [s EXCEPT !.out = @ \o [k \in 1..NumMidiNotes |->
                              Msg("off", PANIC_CHANNEL, k, 0)]]

\* for (i = 0; i < 128; i++) sendNoteOff(i, 0, 1, DEBUG): the loop's messages in order.
allNotesOff(s) ==
    [s EXCEPT !.out = @ \o [k \in 1..NumMidiNotes |->
                              Msg("off", PANIC_CHANNEL, k - 1, 0)]]

sendMetaCommand(s, chan, value) == sendNoteOn(s, value, NOTE_VELOCITY, chan)

(***************************************************************************)
(* loop().                                                                 *)
(***************************************************************************)
\* if (digitalRead(PANIC_PIN) == 0) allNotesOff();
PanicStep(s, panic) == IF panic THEN allNotesOff(s) ELSE s

\* The meta-key block sending the command in every loop() with the switch pressed.
MetaStep_SendWhileHeld(s, meta, chord, mode, value) ==
    IF meta THEN [s |-> sendNoteOn(s, chord, NOTE_VELOCITY, META_CHANNEL),
                  mode |-> TRUE, value |-> chord]
    ELSE [s |-> s, mode |-> FALSE, value |-> value]

\* The meta-key block capturing the chord only when the switch goes down.
MetaStep_CaptureOnce(s, meta, chord, mode, value) ==
    IF meta THEN [s |-> s, mode |-> TRUE, value |-> IF mode THEN value ELSE chord]
    ELSE IF mode = TRUE
         THEN [s |-> sendNoteOn(s, value, NOTE_VELOCITY, META_CHANNEL),
               mode |-> FALSE, value |-> value]
         ELSE [s |-> s, mode |-> mode, value |-> value]

\* The meta-key block: [s, mode, value] after it.
MetaStep(s, meta, chord, mode, value) ==
    IF meta THEN [s |-> s, mode |-> TRUE, value |-> chord]
    ELSE IF mode = TRUE
         THEN [s |-> sendMetaCommand(s, META_CHANNEL, value), mode |-> FALSE, value |-> value]
         ELSE [s |-> s, mode |-> mode, value |-> value]

\* The note branches of loop().  Each yields [s, cur, cc]: the output state,
\* currentNote and ccSendTime after it.  t is millis().

\* Breath stopped: note off.
\* The note-off branch resetting the last-sent breath value.
NoteOffBranch_ResetsVolume(s, cur, cc) ==
    [s |-> [sendNoteOff(s, cur, 0, NOTE_CHANNEL) EXCEPT !.vol = 0], cur |-> -1, cc |-> cc]

NoteOffBranch(s, cur, cc) ==
    [s |-> sendNoteOff(s, cur, 0, NOTE_CHANNEL), cur |-> -1, cc |-> cc]

\* The note-on branch without the assignment to currentNote.
NoteOnBranch_KeepsSilent(s, cc, pb, note, volume, x, y) ==
    [s |-> sendNoteOn(
             sendXYControllers(
               sendPitchBend(sendBreathController(s, volume, NOTE_CHANNEL), pb),
               x, y, NOTE_CHANNEL),
             note, NOTE_VELOCITY, NOTE_CHANNEL),
     cur |-> -1, cc |-> cc]

\* The note-on branch sending the note-on ahead of the controllers.
NoteOnBranch_OnBeforeControllers(s, cc, pb, note, volume, x, y) ==
    [s |-> sendXYControllers(
             sendPitchBend(
               sendBreathController(sendNoteOn(s, note, NOTE_VELOCITY, NOTE_CHANNEL),
                                    volume, NOTE_CHANNEL),
               pb),
             x, y, NOTE_CHANNEL),
     cur |-> note, cc |-> cc]

\* No note was playing: controllers, then note on.
NoteOnBranch(s, cc, pb, note, volume, x, y) ==
    [s |-> sendNoteOn(
             sendXYControllers(
               sendPitchBend(sendBreathController(s, volume, NOTE_CHANNEL), pb),
               x, y, NOTE_CHANNEL),
             note, NOTE_VELOCITY, NOTE_CHANNEL),
     cur |-> note, cc |-> cc]

\* The note-change branch sending the new note-on before the old note-off.
NoteChangeBranch_OnFirst(s, cur, cc, pb, note, volume, x, y) ==
    [s |-> sendNoteOff(
             sendXYControllers(
               sendBreathController(
                 sendPitchBend(sendNoteOn(s, note, NOTE_VELOCITY, NOTE_CHANNEL), pb),
                 volume, NOTE_CHANNEL),
               x, y, NOTE_CHANNEL),
             cur, 0, NOTE_CHANNEL),
     cur |-> note, cc |-> cc]

\* The player moved to a different note: old note off, controllers, new note on.
NoteChangeBranch(s, cur, cc, pb, note, volume, x, y) ==
    [s |-> sendNoteOn(
             sendXYControllers(
               sendBreathController(
                 sendPitchBend(sendNoteOff(s, cur, 0, NOTE_CHANNEL), pb),
                 volume, NOTE_CHANNEL),
               x, y, NOTE_CHANNEL),
             note, NOTE_VELOCITY, NOTE_CHANNEL),
     cur |-> note, cc |-> cc]

\* The sustain branch not recording the time of its batch.
SustainBranch_NoStamp(s, cur, cc, t, pb, volume, x, y) ==
    IF t > cc + MIN_CC_INTERVAL
    THEN [s |-> sendXYControllers(
                  sendBreathController(sendPitchBend(s, pb), volume, NOTE_CHANNEL),
                  x, y, NOTE_CHANNEL),
          cur |-> cur, cc |-> cc]
    ELSE [s |-> s, cur |-> cur, cc |-> cc]

\* The note is sustained: controllers, at most once per MIN_CC_INTERVAL.
SustainBranch(s, cur, cc, t, pb, volume, x, y) ==
    IF t > cc + MIN_CC_INTERVAL
    THEN [s |-> sendXYControllers(
                  sendBreathController(sendPitchBend(s, pb), volume, NOTE_CHANNEL),
                  x, y, NOTE_CHANNEL),
          cur |-> cur, cc |-> t]
    ELSE [s |-> s, cur |-> cur, cc |-> cc]

\* The note branches with the note-change test ahead of the breath test.
NoteStep_ChangeFirst(s, cur, cc, t, pb, note, volume, x, y) ==
    IF (-1 # cur) /\ (note # cur) /\ (-1 # note)
    THEN NoteChangeBranch(s, cur, cc, pb, note, volume, x, y)
    ELSE IF (-1 # cur) /\ (0 = volume) THEN NoteOffBranch(s, cur, cc)
    ELSE IF (-1 = cur) /\ (0 # volume) /\ (-1 # note)
    THEN NoteOnBranch(s, cc, pb, note, volume, x, y)
    ELSE IF -1 # cur THEN SustainBranch(s, cur, cc, t, pb, volume, x, y)
    ELSE [s |-> s, cur |-> cur, cc |-> cc]

NoteStep(s, cur, cc, t, pb, note, volume, x, y) ==
    IF (-1 # cur) /\ (0 = volume) THEN NoteOffBranch(s, cur, cc)
    ELSE IF (-1 = cur) /\ (0 # volume) /\ (-1 # note)
    THEN NoteOnBranch(s, cc, pb, note, volume, x, y)
    ELSE IF (-1 # cur) /\ (note # cur)
    THEN NoteChangeBranch(s, cur, cc, pb, note, volume, x, y)
    ELSE IF -1 # cur THEN SustainBranch(s, cur, cc, t, pb, volume, x, y)
    ELSE [s |-> s, cur |-> cur, cc |-> cc]

\* The channel-0 note messages of a loop() replayed over the notes held on.
IsNoteMsg(m) == m.chan = NOTE_CHANNEL /\ m.type \in {"on", "off"}

RECURSIVE RemoveFirst(_, _)
RemoveFirst(seq, v) ==
    IF seq = <<>> THEN <<>>
    ELSE IF Head(seq) = v THEN Tail(seq)
    ELSE <<Head(seq)>> \o RemoveFirst(Tail(seq), v)

NoteMsgs(msgs) == SelectSeq(msgs, IsNoteMsg)

RECURSIVE ReplayNotes(_, _)
ReplayNotes(msgs, h) ==
    IF msgs = <<>> THEN h
    ELSE LET m == Head(msgs)
             h1 == IF m.type = "on"
                   THEN [held |-> Append(h.held, m.d1), lastOn |-> m.d1,
                         ok |-> h.ok /\ h.held = <<>>]
                   ELSE [held |-> RemoveFirst(h.held, m.d1), lastOn |-> h.lastOn,
                         ok |-> h.ok /\ m.d1 = h.lastOn]
         IN ReplayNotes(Tail(msgs), h1)

Replay(msgs, h) == ReplayNotes(NoteMsgs(msgs), h)

\* The messages of o for one signal: pitch bend, or one controller number.
PbMsgs(o) == SelectSeq(o, LAMBDA m : m.type = "pb")
CcMsgs(o, cc) == SelectSeq(o, LAMBDA m : m.type = "cc" /\ m.d1 = cc)

\* The value of the last message of msgs, taken by field, or last if msgs is empty.
LastValue(msgs, field, last) == IF msgs = <<>> THEN last ELSE msgs[Len(msgs)][field]

\* The last-sent values after the messages o.
ReplaySent(o, last) ==
    [pb |-> LastValue(PbMsgs(o), "d1", last.pb),
     vol |-> LastValue(CcMsgs(o, MIDI_BREATH_CC), "d2", last.vol),
     x |-> LastValue(CcMsgs(o, X_CC), "d2", last.x),
     y |-> LastValue(CcMsgs(o, Y_CC), "d2", last.y)]

NoTick ==
    [ran |-> FALSE, panic |-> FALSE, meta |-> FALSE, chord |-> 0,
     slide |-> 0, breath |-> 0, x |-> 0, y |-> 0,
     pb |-> -1, ot |-> 0, note |-> -1, volume |-> 0,
     startNote |-> -1, startMeta |-> FALSE, startValue |-> 0]

\* loop() with the panic switch also forgetting the current note.
Loop_PanicResets(panic, meta, chord, slide, breath, x, y, mem, oob) ==
    /\ pc = "loop"
    /\ LET s0 == [pb |-> currentPitchBend, vol |-> currentVolume,
                  x |-> currentXValue, y |-> currentYValue, out |-> <<>>]
           pb == getPitchBend(slide)
           ot == getOvertoneFromOvertoneSwitches(chord, mem)
           note == getMIDINote(ot, currentNote, oob)
           volume == getVolume(breath)
       IN \E m \in {MetaStep(PanicStep(s0, panic), meta, chord, metaMode, metaValue)} :
          \E r \in {NoteStep(m.s, IF panic THEN -1 ELSE currentNote, ccSendTime, now,
                            pb, note, volume, x, y)} :
          \E h \in {Replay(r.s.out, [held |-> held, lastOn |-> lastOn, ok |-> orderly])} :
          /\ currentNote' = r.cur
          /\ currentPitchBend' = r.s.pb
          /\ currentVolume' = r.s.vol
          /\ currentXValue' = r.s.x
          /\ currentYValue' = r.s.y
          /\ metaMode' = m.mode
          /\ metaValue' = m.value
          /\ ccSendTime' = r.cc
          /\ out' = r.s.out
          /\ held' = h.held
          /\ lastOn' = h.lastOn
          /\ orderly' = h.ok
          /\ sent' = ReplaySent(r.s.out, sent)
          /\ tick' = [ran |-> TRUE, panic |-> panic, meta |-> meta, chord |-> chord,
                      slide |-> slide, breath |-> breath, x |-> x, y |-> y,
                      pb |-> pb, ot |-> ot, note |-> note, volume |-> volume,
                      startNote |-> currentNote, startMeta |-> metaMode,
                      startValue |-> metaValue]
    /\ pc' = "delay"
    /\ UNCHANGED <<now, metaRun>>
    /\ UNCHANGED decVars
    /\ UNCHANGED fnVars

\* loop() from its first statement up to the delay(50).
Loop(panic, meta, chord, slide, breath, x, y, mem, oob) ==
    /\ pc = "loop"
    /\ LET s0 == [pb |-> currentPitchBend, vol |-> currentVolume,
                  x |-> currentXValue, y |-> currentYValue, out |-> <<>>]
           pb == getPitchBend(slide)
           ot == getOvertoneFromOvertoneSwitches(chord, mem)
           note == getMIDINote(ot, currentNote, oob)
           volume == getVolume(breath)
       IN \E m \in {MetaStep(PanicStep(s0, panic), meta, chord, metaMode, metaValue)} :
          \E r \in {NoteStep(m.s, currentNote, ccSendTime, now, pb, note, volume, x, y)} :
          \E h \in {Replay(r.s.out, [held |-> held, lastOn |-> lastOn, ok |-> orderly])} :
          /\ currentNote' = r.cur
          /\ currentPitchBend' = r.s.pb
          /\ currentVolume' = r.s.vol
          /\ currentXValue' = r.s.x
          /\ currentYValue' = r.s.y
          /\ metaMode' = m.mode
          /\ metaValue' = m.value
          /\ ccSendTime' = r.cc
          /\ out' = r.s.out
          /\ held' = h.held
          /\ lastOn' = h.lastOn
          /\ orderly' = h.ok
          /\ sent' = ReplaySent(r.s.out, sent)
          /\ tick' = [ran |-> TRUE, panic |-> panic, meta |-> meta, chord |-> chord,
                      slide |-> slide, breath |-> breath, x |-> x, y |-> y,
                      pb |-> pb, ot |-> ot, note |-> note, volume |-> volume,
                      startNote |-> currentNote, startMeta |-> metaMode,
                      startValue |-> metaValue]
    /\ pc' = "delay"
    /\ UNCHANGED <<now, metaRun>>
    /\ UNCHANGED decVars
    /\ UNCHANGED fnVars

\* delay(50): the clock advances; the next loop() starts with nothing emitted.
Delay ==
    /\ pc = "delay"
    /\ now + LOOP_DELAY < MaxLoops * LOOP_DELAY
    /\ now' = now + LOOP_DELAY
    /\ pc' = "loop"
    /\ out' = <<>>
    /\ tick' = NoTick
    /\ metaRun' = IF tick.meta THEN tick.chord ELSE -1
    /\ UNCHANGED <<currentNote, currentPitchBend, currentVolume, currentXValue,
                   currentYValue, metaMode, metaValue, ccSendTime, held, lastOn,
                   orderly, sent>>
    /\ UNCHANGED decVars
    /\ UNCHANGED fnVars

ProgInit ==
    /\ currentNote = -1
    /\ currentPitchBend = PITCH_BEND_NEUTRAL
    /\ currentVolume = 0
    /\ currentXValue = 0
    /\ currentYValue = 0
    /\ metaMode = FALSE
    /\ metaValue = 0
    /\ ccSendTime = 0
    /\ now = 0
    /\ pc = "loop"
    /\ out = <<>>
    /\ held = <<>>
    /\ lastOn = -1
    /\ orderly = TRUE
    /\ metaRun = -1
    /\ sent = [pb |-> 8191, vol |-> 0, x |-> 0, y |-> 0]
    /\ tick = NoTick

DecIdle ==
    /\ dPc = "idle"
    /\ dVal = 0
    /\ dMem = NoMem
    /\ dRes = [ot |-> 0, reads |-> 0]
    /\ dPrev = [val |-> -1, ot |-> -1]

\* The send state before any message: the initial last-sent values.
NoSend == [pb |-> PITCH_BEND_NEUTRAL, vol |-> 0, x |-> 0, y |-> 0, out |-> <<>>]

FnIdle ==
    /\ fPc = "idle"
    /\ fKind = "none"
    /\ fIn = <<>>
    /\ fOut = <<>>
    /\ fS = NoSend

Init == ProgInit /\ DecIdle /\ FnIdle

\* The memory past overtone_sw_values is read only for a pattern the table
\* lacks, and overtones[] is read past its end only for an index >= TableLen.
MemFor(chord) ==
    IF \E i \in 1..TableLen : overtone_sw_values[i] = chord
    THEN {NoMem}
    ELSE MemChoices({TableLen})

OobFor(chord, mem) ==
    IF getOvertoneFromOvertoneSwitches(chord, mem) < TableLen THEN {0} ELSE OobNotes

LoopStep ==
    \E panic \in BOOLEAN, meta \in BOOLEAN, chord \in Chords,
       slide \in SlideReadings, breath \in BreathReadings, xy \in XYReadings :
        \E mem \in MemFor(chord) :
            \E oob \in OobFor(chord, mem) :
                Loop(panic, meta, chord, slide, breath, xy[1], xy[2], mem, oob)

Next == LoopStep \/ Delay

Spec == Init /\ [][Next]_vars

(***************************************************************************)
(* The chord decoder alone: each call takes a pattern and finds some       *)
(* memory past the table.                                                  *)
(***************************************************************************)
DecodeCall ==
    /\ dPc = "call"
    /\ dRes' = DecodeRun(dVal, dMem)
    /\ dPc' = "ret"
    /\ UNCHANGED <<dVal, dMem, dPrev>>
    /\ UNCHANGED progVars
    /\ UNCHANGED fnVars

DecodeAgain ==
    /\ dPc = "ret"
    /\ dPrev' = [val |-> dVal, ot |-> dRes.ot]
    /\ dVal' \in ChordPatterns
    /\ dMem' \in MemChoices({TableLen, SizeofSwTable - 1})
    /\ dPc' = "call"
    /\ UNCHANGED dRes
    /\ UNCHANGED progVars
    /\ UNCHANGED fnVars

InitDecode ==
    /\ ProgInit
    /\ dPc = "call"
    /\ dVal \in ChordPatterns
    /\ dMem \in MemChoices({TableLen, SizeofSwTable - 1})
    /\ dRes = [ot |-> 0, reads |-> 0]
    /\ dPrev = [val |-> -1, ot |-> -1]
    /\ FnIdle

NextDecode == DecodeCall \/ DecodeAgain

SpecDecode == InitDecode /\ [][NextDecode]_vars

(***************************************************************************)
(* The mapping and send functions alone: each behaviour calls one of them  *)
(* on arguments drawn from the ranges below.  The mappings are called on a *)
(* pair of readings r1 <= r2.  A send function is called a second time on  *)
(* a value near the first, and quantizeSlide on its own result.            *)
(***************************************************************************)
AnalogReadings == 0..AnalogMax

\* Slide readings around the two end stops and the no-touch value, and all
\* between the end stops.
SlidePairEnds ==
    {r \in AnalogReadings :
        \/ r >= LPOT_SLIDE_POS_1 - PairMargin /\ r <= LPOT_SLIDE_POS_7 + PairMargin
        \/ r >= LPOT_NO_TOUCH_VALUE - PairMargin /\ r <= LPOT_NO_TOUCH_VALUE + PairMargin}

BreathPairEnds ==
    {r \in AnalogReadings :
        r >= NOTE_ON_VOLUME_THRESHOLD - PairMargin /\ r <= VOLUME_MAX_VALUE + PairMargin}

Pairs(ends) ==
    {<<r, r>> : r \in AnalogReadings} \cup {<<r1, r2>> \in ends \X ends : r1 < r2}

\* Last-sent values a send function starts from.
PbLast == {0, PITCH_BEND_NEUTRAL \div 2, PITCH_BEND_NEUTRAL}
CcLast == {0, 64, 127}

\* Values within GateSpan of v.
Near(v, lo, hi) == {c \in (v - GateSpan)..(v + GateSpan) : c >= lo /\ c <= hi}

FnKinds == {"slide", "breath", "quant", "pb", "bc", "xy"}

FnInputs(kind) ==
    CASE kind = "slide" -> Pairs(SlidePairEnds)
      [] kind = "breath" -> Pairs(BreathPairEnds)
      [] kind = "quant" -> {<<v>> : v \in (0 - QuantMargin)..(8192 + QuantMargin)}
      [] kind = "pb" ->
            {<<l, c>> : l \in PbLast, c \in {-1} \cup (0..GateSpan)
                                          \cup ((PITCH_BEND_NEUTRAL - GateSpan)..PITCH_BEND_NEUTRAL)}
      [] kind = "bc" -> {<<l, c>> : l \in CcLast, c \in 0..127}
      [] kind = "xy" ->
            {<<lx, ly, x, y>> : lx \in {0, 64}, ly \in {0, 62},
                                x \in AnalogReadings, y \in {0, 500, 510}}

\* The values the function returns.
FnResult(kind, in) ==
    CASE kind = "slide" -> <<getPitchBendFromLinearPot(in[1], 0),
                             getPitchBendFromLinearPot(in[2], 0)>>
      [] kind = "breath" -> <<getVolumeFromBreathSensor(in[1]),
                              getVolumeFromBreathSensor(in[2])>>
      [] kind = "quant" -> <<quantizeSlide(in[1])>>
      [] OTHER -> <<>>

\* The send state after the function, called with no message emitted yet.
FnSend(kind, in) ==
    CASE kind = "pb" -> sendPitchBend([NoSend EXCEPT !.pb = in[1]], in[2])
      [] kind = "bc" -> sendBreathController([NoSend EXCEPT !.vol = in[1]], in[2], NOTE_CHANNEL)
      [] kind = "xy" -> sendXYControllers([NoSend EXCEPT !.x = in[1], !.y = in[2]],
                                          in[3], in[4], NOTE_CHANNEL)
      [] OTHER -> NoSend

\* The arguments of the second call, after a first call on in that left s.
FnNextInputs(kind, in, res, s) ==
    CASE kind = "quant" -> {res}
      [] kind = "pb" -> {<<s.pb, c>> : c \in Near(in[2], 0, PITCH_BEND_NEUTRAL)}
      [] kind = "bc" -> {<<s.vol, c>> : c \in Near(in[2], 0, 127)}
      [] kind = "xy" -> {<<s.x, s.y, x, in[4]>> : x \in {in[3], in[3] + 9, in[3] + 17}
                                                       \cap AnalogReadings}
      [] OTHER -> {}

FnCall ==
    /\ fPc = "call"
    /\ fOut' = FnResult(fKind, fIn)
    /\ fS' = FnSend(fKind, fIn)
    /\ fPc' = "ret"
    /\ UNCHANGED <<fKind, fIn>>
    /\ UNCHANGED progVars
    /\ UNCHANGED decVars

FnAgain ==
    /\ fPc = "ret"
    /\ \E in \in FnNextInputs(fKind, fIn, fOut, fS) :
        /\ fIn' = in
        /\ fOut' = FnResult(fKind, in)
        /\ fS' = FnSend(fKind, in)
    /\ fPc' = "again"
    /\ UNCHANGED fKind
    /\ UNCHANGED progVars
    /\ UNCHANGED decVars

InitFn ==
    /\ ProgInit
    /\ DecIdle
    /\ fPc = "call"
    /\ fKind \in FnKinds
    /\ fIn \in FnInputs(fKind)
    /\ fOut = <<>>
    /\ fS = NoSend

NextFn == FnCall \/ FnAgain

SpecFn == InitFn /\ [][NextFn]_vars

\* A call of the named function has returned.
Returned(kind) == fKind = kind /\ fPc \in {"ret", "again"}

(***************************************************************************)
(* Properties.                                                             *)
(***************************************************************************)
IsNoteOn(m) == m.chan = NOTE_CHANNEL /\ m.type = "on"
IsNoteOff(m) == m.chan = NOTE_CHANNEL /\ m.type = "off"
IsCommand(m) == m.chan = META_CHANNEL /\ m.type = "on"
IsPanicOff(m) == m.chan = PANIC_CHANNEL /\ m.type = "off"
IsController(m) == m.type \in {"pb", "cc"}

NoteOns(o) == SelectSeq(o, IsNoteOn)
NoteOffs(o) == SelectSeq(o, IsNoteOff)
Commands(o) == SelectSeq(o, IsCommand)

\* The 128 note-offs of a panic, in order.
PanicMsgs == [k \in 1..NumMidiNotes |-> Msg("off", PANIC_CHANNEL, k - 1, 0)]

\* The note the documented tables give a chord pattern, -1 for a pattern they lack.
InTable(chord) == \E i \in 1..TableLen : overtone_sw_values[i] = chord
TableNote(chord) ==
    IF InTable(chord)
    THEN overtones[CHOOSE i \in 1..TableLen : overtone_sw_values[i] = chord]
    ELSE -1

NoteOnMsg(note) == Msg("on", NOTE_CHANNEL, note, NOTE_VELOCITY)
NoteOffMsg(note) == Msg("off", NOTE_CHANNEL, note, 0)

\* C1 as stated: a loop() with the panic input active emits exactly the 128
\* note-offs (notes 0..127, channel 1, velocity 0), nothing else, and evaluates
\* no note or meta transition.
C1_PanicOnly ==
    (tick.ran /\ tick.panic) =>
        /\ out = PanicMsgs
        /\ currentNote = tick.startNote
        /\ metaMode = tick.startMeta
        /\ metaValue = tick.startValue

\* C1 amended: a loop() with the panic input active emits, before any other
\* message, the 128 note-offs for notes 0..127 in ascending order on channel 1
\* at velocity 0, and these are its only channel-1 note-offs; a loop() without
\* panic emits no channel-1 note-off.  The meta and note handling still run.
C1_PanicFirst ==
    tick.ran =>
        IF tick.panic
        THEN /\ Len(out) >= NumMidiNotes
             /\ SubSeq(out, 1, NumMidiNotes) = PanicMsgs
             /\ \A i \in (NumMidiNotes + 1)..Len(out) : ~IsPanicOff(out[i])
        ELSE \A i \in 1..Len(out) : ~IsPanicOff(out[i])

\* A panic loop() that started with a note sounding and went on to emit more.
C1_Witness ==
    /\ tick.ran /\ tick.panic
    /\ tick.startNote # -1
    /\ Len(out) > NumMidiNotes
    /\ NoteOns(out) # <<>>

\* C2 as stated: in a loop() with the meta switch pressed the chord is not used
\* for note selection, so no channel-0 note-on (alone or after a note-off) is
\* emitted.
C2_MetaExclusive ==
    (tick.ran /\ tick.meta) => NoteOns(out) = <<>>

\* C2 amended: in a loop() with the meta switch pressed the chord is recorded
\* as the meta capture and no command is emitted; the same chord is also used
\* for note selection as in any other loop(): from Silent with breath a table
\* chord starts its note, and from Sounding with breath a table chord for
\* another note changes the note.
C2_MetaCaptures ==
    (tick.ran /\ tick.meta) =>
        /\ metaMode = TRUE
        /\ metaValue = tick.chord
        /\ Commands(out) = <<>>
        /\ (tick.startNote = -1 /\ tick.volume # 0 /\ InTable(tick.chord))
              => /\ NoteOns(out) = <<NoteOnMsg(TableNote(tick.chord))>>
                 /\ currentNote = TableNote(tick.chord)
        /\ (tick.startNote # -1 /\ tick.volume # 0 /\ InTable(tick.chord)
                /\ TableNote(tick.chord) # tick.startNote)
              => /\ NoteOns(out) = <<NoteOnMsg(TableNote(tick.chord))>>
                 /\ NoteOffs(out) = <<NoteOffMsg(tick.startNote)>>
                 /\ currentNote = TableNote(tick.chord)

\* A loop() with the meta switch pressed in which the chord changed the note.
C2_Witness ==
    /\ tick.ran /\ tick.meta
    /\ tick.startNote # -1
    /\ InTable(tick.chord)
    /\ currentNote = TableNote(tick.chord)
    /\ currentNote # tick.startNote
    /\ metaValue = tick.chord

\* C3: a loop() with the meta switch pressed emits no command and leaves
\* MetaState active; the first loop() after a run of such loops emits exactly
\* one command, whose payload is the chord read in the last loop() of the run,
\* and leaves MetaState inactive; a loop() with the switch released that does
\* not follow such a run emits no command.
C3_MetaOneShot ==
    tick.ran =>
        IF tick.meta
        THEN Commands(out) = <<>> /\ metaMode = TRUE
        ELSE /\ metaMode = FALSE
             /\ Commands(out) =
                   IF metaRun # -1
                   THEN <<Msg("on", META_CHANNEL, metaRun, NOTE_VELOCITY)>>
                   ELSE <<>>

\* The first loop() after a meta run: the command has been sent.
C3_Witness ==
    /\ tick.ran /\ ~tick.meta
    /\ metaRun # -1
    /\ Commands(out) = <<Msg("on", META_CHANNEL, metaRun, NOTE_VELOCITY)>>
    /\ metaMode = FALSE

\* C4 as stated: at most one channel-0 note is on; every channel-0 note-on
\* came when no channel-0 note was on, every channel-0 note-off named the note
\* of the most recent note-on, and currentNote is the note that is on, or -1
\* when none is.
C4_Monophonic ==
    /\ orderly
    /\ Len(held) <= 1
    /\ (held = <<>>) = (currentNote = -1)
    /\ held # <<>> => currentNote = held[1]

\* delay(50) leaves the note state alone.
DelayKeepsNote == [][pc = "delay" => currentNote' = currentNote]_vars

\* What C5 says of a single loop(): the note-on when it starts Silent, and no
\* note-on when it starts with the chord's note already sounding.
C5_LoopInv ==
    tick.ran =>
        /\ (tick.startNote = -1 /\ tick.volume > 0 /\ InTable(tick.chord))
              => /\ NoteOns(out) = <<NoteOnMsg(TableNote(tick.chord))>>
                 /\ NoteOffs(out) = <<>>
                 /\ currentNote = TableNote(tick.chord)
        /\ (tick.startNote # -1 /\ tick.volume > 0 /\ InTable(tick.chord)
                /\ TableNote(tick.chord) = tick.startNote)
              => /\ NoteOns(out) = <<>>
                 /\ currentNote = tick.startNote

\* C5: a loop() that starts Silent with volume > 0 and a chord of the table
\* emits exactly one channel-0 note-on, for the chord's note at velocity 127,
\* and no note-off, and ends in Sounding(that note); a loop() that starts in
\* Sounding(n) with volume > 0 and the chord of n emits no channel-0 note-on
\* and stays in Sounding(n); and the note state does not change between loops,
\* so the note-on is not repeated while the chord and the breath are held.
C5_NoteOnOnce == []C5_LoopInv /\ DelayKeepsNote

\* A later loop() holding the chord of the sounding note: no second note-on.
C5_Witness ==
    /\ tick.ran
    /\ tick.startNote # -1 /\ tick.volume > 0
    /\ InTable(tick.chord) /\ TableNote(tick.chord) = tick.startNote
    /\ lastOn = tick.startNote
    /\ NoteOns(out) = <<>>
    /\ currentNote = tick.startNote

\* C6: a loop() that starts in Sounding(n) with volume 0 emits the channel-0
\* note-off for n at velocity 0 and no channel-0 note-on, whatever the chord,
\* and ends Silent.
C6_BreathStops ==
    (tick.ran /\ tick.startNote # -1 /\ tick.volume = 0) =>
        /\ NoteOffs(out) = <<NoteOffMsg(tick.startNote)>>
        /\ NoteOns(out) = <<>>
        /\ currentNote = -1

\* Breath stops while the chord selects another note.
C6_Witness ==
    /\ tick.ran /\ tick.startNote # -1 /\ tick.volume = 0
    /\ InTable(tick.chord) /\ TableNote(tick.chord) # tick.startNote
    /\ tick.note = TableNote(tick.chord)
    /\ currentNote = -1

\* C7: a loop() that starts in Sounding(old) with volume > 0 and decodes a
\* note new # old emits note-off(old) and then note-on(new, 127), with only
\* controller messages between them and no other channel-0 note message, and
\* ends in Sounding(new).
C7_NoteChangeOrder ==
    (tick.ran /\ tick.startNote # -1 /\ tick.volume > 0
        /\ tick.note # -1 /\ tick.note # tick.startNote) =>
        /\ \E i \in 1..Len(out) : \E j \in (i + 1)..Len(out) :
              /\ out[i] = NoteOffMsg(tick.startNote)
              /\ out[j] = NoteOnMsg(tick.note)
              /\ \A k \in (i + 1)..(j - 1) : IsController(out[k])
        /\ NoteOffs(out) = <<NoteOffMsg(tick.startNote)>>
        /\ NoteOns(out) = <<NoteOnMsg(tick.note)>>
        /\ currentNote = tick.note

\* A note change with controller messages between the note-off and the note-on.
C7_Witness ==
    /\ tick.ran /\ tick.startNote # -1 /\ tick.volume > 0
    /\ InTable(tick.chord) /\ tick.note = TableNote(tick.chord)
    /\ tick.note # tick.startNote
    /\ currentNote = tick.note
    /\ \E i \in 1..Len(out) :
          /\ out[i] = NoteOffMsg(tick.startNote)
          /\ i + 1 < Len(out)
          /\ IsController(out[i + 1])

\* C8: a loop() that starts in Sounding(n) with volume > 0 and a chord that
\* decodes to NoMatch emits no channel-0 note message and stays in
\* Sounding(n); a loop() that starts Silent with a NoMatch chord emits no
\* channel-0 note-on and stays Silent; and a loop() that emits a channel-0
\* note-off without a note-on is one with volume 0.
C8_HoldOnNoMatch ==
    tick.ran =>
        /\ (tick.startNote # -1 /\ tick.volume > 0 /\ tick.ot = -1)
              => /\ NoteOns(out) = <<>> /\ NoteOffs(out) = <<>>
                 /\ currentNote = tick.startNote
        /\ (tick.startNote = -1 /\ tick.ot = -1)
              => /\ NoteOns(out) = <<>>
                 /\ currentNote = -1
        /\ (NoteOffs(out) # <<>> /\ NoteOns(out) = <<>>) => tick.volume = 0

\* A sounding note held through a chord the table lacks.
C8_Witness ==
    /\ tick.ran /\ tick.startNote # -1 /\ tick.volume > 0
    /\ ~InTable(tick.chord) /\ tick.ot = -1
    /\ currentNote = tick.startNote
    /\ held = <<tick.startNote>>

\* C9 as stated: currentNote is -1 or one of the 8 values of the overtone table.
C9_NoteInTable ==
    currentNote \in {-1} \cup { overtones[i] : i \in 1..TableLen }

\* C10 as stated: for each of the 16 patterns the decoder returns an index in
\* 0..7 or -1, reads only the 8 entries of the pattern table, and returns for
\* a pattern what it returned for the same pattern before.
C10_DecodeTotal ==
    dPc = "ret" =>
        /\ dRes.ot \in (0..(TableLen - 1)) \cup {-1}
        /\ dRes.reads <= TableLen
        /\ (dPrev.val = dVal => dPrev.ot = dRes.ot)

\* The patterns the documented chord table lacks.
AbsentPatterns == ChordPatterns \ {0, 1, 3, 7, 15, 14, 12, 8}

C11_WitnessAbsent == dPc = "ret" /\ dVal = 5 /\ dRes.ot = -1 /\ dRes.reads = SizeofSwTable

\* C12: a send function emits a message for a signal only if the candidate
\* differs from the value last sent for that signal by strictly more than the
\* threshold (10 for pitch bend, 1 for breath, X and Y), at most one message
\* per signal and call; so a call on a value identical to or within the
\* threshold of the last sent one emits nothing.
C12_ChangeGate ==
    /\ Returned("pb") =>
          /\ \A i \in DOMAIN fS.out :
                /\ fS.out[i].type = "pb"
                /\ fS.out[i].d1 = fIn[2]
                /\ Abs(fS.out[i].d1 - fIn[1]) > 10
          /\ Len(fS.out) <= 1
          /\ Abs(fIn[2] - fIn[1]) <= 10 => fS.out = <<>>
    /\ Returned("bc") =>
          /\ \A i \in DOMAIN fS.out :
                /\ fS.out[i].type = "cc" /\ fS.out[i].d1 = MIDI_BREATH_CC
                /\ fS.out[i].d2 = fIn[2]
                /\ Abs(fS.out[i].d2 - fIn[1]) > 1
          /\ Len(fS.out) <= 1
          /\ Abs(fIn[2] - fIn[1]) <= 1 => fS.out = <<>>
    /\ Returned("xy") =>
          /\ \A i \in DOMAIN fS.out :
                /\ fS.out[i].type = "cc" /\ fS.out[i].d1 \in {X_CC, Y_CC}
                /\ fS.out[i].d1 = X_CC =>
                      /\ fS.out[i].d2 = map(fIn[3], 0, 1024, 0, 127)
                      /\ Abs(fS.out[i].d2 - fIn[1]) > 1
                /\ fS.out[i].d1 = Y_CC =>
                      /\ fS.out[i].d2 = map(fIn[4], 0, 1024, 0, 127)
                      /\ Abs(fS.out[i].d2 - fIn[2]) > 1
          /\ Len(CcMsgs(fS.out, X_CC)) <= 1
          /\ Len(CcMsgs(fS.out, Y_CC)) <= 1
          /\ Abs(map(fIn[3], 0, 1024, 0, 127) - fIn[1]) <= 1 => CcMsgs(fS.out, X_CC) = <<>>
          /\ Abs(map(fIn[4], 0, 1024, 0, 127) - fIn[2]) <= 1 => CcMsgs(fS.out, Y_CC) = <<>>

\* A second pitch bend, exactly the threshold away from the one just sent, was
\* suppressed.
C12_Witness ==
    /\ fKind = "pb" /\ fPc = "again"
    /\ fIn[2] # -1
    /\ Abs(fIn[2] - fIn[1]) = PB_SEND_THRESHOLD
    /\ fS.out = <<>>

\* C13: every slide reading above 1010 maps to "not touched" (-1) in both
\* quantization modes, and a loop() with such a reading emits no pitch-bend
\* message and leaves currentPitchBend as it was, whichever branch it takes.
C13_NoTouch ==
    [][(tick'.ran /\ tick'.slide > 1010) =>
          /\ \A r \in AnalogReadings : \A quant \in {0, 1} :
                r > 1010 => getPitchBendFromLinearPot(r, quant) = -1
          /\ tick'.pb = -1
          /\ PbMsgs(out') = <<>>
          /\ currentPitchBend' = currentPitchBend]_vars

\* A loop() with the slide not touched has started a note while the last
\* pitch bend sent was not the neutral one.
C13_Witness ==
    /\ tick.ran /\ tick.slide > LPOT_NO_TOUCH_VALUE
    /\ NoteOns(out) # <<>>
    /\ currentPitchBend # PITCH_BEND_NEUTRAL

C15_BreathMapping ==
    Returned("breath") =>
        /\ fIn[1] <= fIn[2] => fOut[1] <= fOut[2]
        /\ \A i \in 1..2 :
              /\ fIn[i] < 60 => fOut[i] = 0
              /\ fIn[i] = 60 => fOut[i] = 0
              /\ fIn[i] = 500 => fOut[i] = 127
              /\ fIn[i] > 500 => fOut[i] = 127
              /\ fOut[i] >= 0 /\ fOut[i] <= 127

\* The mapping was called on a reading at the note-on threshold and one past
\* the maximum.
C15_Witness ==
    /\ Returned("breath")
    /\ fIn = <<NOTE_ON_VOLUME_THRESHOLD, VOLUME_MAX_VALUE + 1>>
    /\ fOut = <<0, 127>>

\* The documented bands of quantizeSlide: lowest value, highest value, output.
QuantBands ==
    {<<0, 683, 0>>, <<684, 2048, 1365>>, <<2049, 3413, 2731>>, <<3414, 4779, 4096>>,
     <<4780, 6144, 5461>>, <<6145, 7509, 6827>>, <<7510, 8192, 8191>>}

\* C16: for every x in 0..8192 quantizeSlide(x) is the output of the one
\* documented band that holds x, every value outside 0..8192 maps to 0, and
\* quantizeSlide applied to its own result returns that result.
C16_Quantize ==
    Returned("quant") =>
        /\ (fIn[1] >= 0 /\ fIn[1] <= 8192) =>
              /\ \E b \in QuantBands :
                    /\ b[1] <= fIn[1] /\ fIn[1] <= b[2] /\ fOut[1] = b[3]
                    /\ \A c \in QuantBands : (c[1] <= fIn[1] /\ fIn[1] <= c[2]) => c = b
              /\ fOut[1] \in {0, 1365, 2731, 4096, 5461, 6827, 8191}
        /\ (fIn[1] < 0 \/ fIn[1] > 8192) => fOut[1] = 0
        /\ fPc = "again" => fOut = fIn

\* quantizeSlide was applied to its own result for a value of the second band.
C16_Witness ==
    /\ fKind = "quant" /\ fPc = "again"
    /\ fIn = <<1365>>
    /\ fOut = <<1365>>

\* The controller messages a send function emits for candidate value v when
\* the value last sent was last: one message m if they differ by more than
\* the threshold, none otherwise.
Gated(last, v, threshold, m) == IF Abs(last - v) > threshold THEN <<m>> ELSE <<>>

\* What sendXYControllers makes of a joystick reading.
MappedXY(v) == map(v, 0, 1024, 0, 127)

\* C17 as stated: in every loop() that starts a note, the note-on is the last
\* message and the values last sent for breath, pitch bend (when the slide is
\* touched), X and Y are the values of this loop().
C17_FlushAsStated ==
    (tick.ran /\ NoteOns(out) # <<>>) =>
        /\ IsNoteOn(out[Len(out)])
        /\ currentVolume = tick.volume
        /\ tick.pb # -1 => currentPitchBend = tick.pb
        /\ currentXValue = MappedXY(tick.x)
        /\ currentYValue = MappedXY(tick.y)

\* C17 amended: in every loop() that starts a note, exactly those of breath,
\* pitch bend (when the slide is touched), X and Y whose value differs from
\* the value last sent by more than its threshold (10 for pitch bend, 1 for
\* the others) are sent, all before the note-on; the note-on is the last
\* message of the loop(); and afterwards each last-sent value is within its
\* threshold of the value of this loop().
C17_FlushGated ==
    [][(tick'.ran /\ NoteOns(out') # <<>>) =>
          /\ IsNoteOn(out'[Len(out')])
          /\ Len(NoteOns(out')) = 1
          /\ CcMsgs(out', MIDI_BREATH_CC) =
                Gated(currentVolume, tick'.volume, 1,
                      Msg("cc", NOTE_CHANNEL, MIDI_BREATH_CC, tick'.volume))
          /\ PbMsgs(out') =
                IF tick'.pb = -1 THEN <<>>
                ELSE Gated(currentPitchBend, tick'.pb, 10, Msg("pb", 0, tick'.pb, 0))
          /\ CcMsgs(out', X_CC) =
                Gated(currentXValue, MappedXY(tick'.x), 1,
                      Msg("cc", NOTE_CHANNEL, X_CC, MappedXY(tick'.x)))
          /\ CcMsgs(out', Y_CC) =
                Gated(currentYValue, MappedXY(tick'.y), 1,
                      Msg("cc", NOTE_CHANNEL, Y_CC, MappedXY(tick'.y)))
          /\ Abs(currentVolume' - tick'.volume) <= 1
          /\ tick'.pb # -1 => Abs(currentPitchBend' - tick'.pb) <= 10
          /\ Abs(currentXValue' - MappedXY(tick'.x)) <= 1
          /\ Abs(currentYValue' - MappedXY(tick'.y)) <= 1]_vars

\* A loop() started a note after sending a pitch bend, with a breath value
\* that was within the threshold of the last one sent and so was not sent.
C17_Witness ==
    /\ tick.ran /\ NoteOns(out) # <<>>
    /\ PbMsgs(out) # <<>>
    /\ tick.volume = 1 /\ currentVolume = 0
    /\ CcMsgs(out, MIDI_BREATH_CC) = <<>>

Controllers(o) == SelectSeq(o, IsController)

\* C18: in a loop() that starts and ends with the same note sounding, the
\* controller batch is attempted only if the clock is more than 10 ms past
\* ccSendTime, which is then set to the clock, and ccSendTime is the time of
\* the last batch so attempted: no other loop() changes it; so two such
\* batches are more than 10 ms apart.  Note-on and note-off do not wait for
\* the time gate: they are sent in the loop() whose readings call for them.
C18_RateLimit ==
    [][tick'.ran =>
          LET sustained == currentNote # -1 /\ currentNote' = currentNote
          IN /\ sustained =>
                   IF now > ccSendTime + 10
                   THEN ccSendTime' = now
                   ELSE ccSendTime' = ccSendTime /\ Controllers(out') = <<>>
             /\ ccSendTime' # ccSendTime =>
                   (sustained /\ ccSendTime' = now /\ ccSendTime' - ccSendTime > 10)
             /\ (currentNote = -1 /\ tick'.volume # 0 /\ tick'.note # -1) =>
                   NoteOns(out') = <<NoteOnMsg(tick'.note)>>
             /\ (currentNote # -1 /\ tick'.volume = 0) =>
                   NoteOffs(out') = <<NoteOffMsg(currentNote)>>
             /\ (currentNote # -1 /\ tick'.volume # 0 /\ tick'.note # currentNote) =>
                   /\ NoteOffs(out') = <<NoteOffMsg(currentNote)>>
                   /\ NoteOns(out') = <<NoteOnMsg(tick'.note)>>]_vars

\* A loop() sustained its note and sent a controller batch.
C18_Witness ==
    /\ tick.ran /\ tick.startNote # -1 /\ currentNote = tick.startNote
    /\ tick.volume # 0
    /\ Controllers(out) # <<>>
    /\ ccSendTime = now /\ now > MIN_CC_INTERVAL

\* A loop() started a note at a time when the time gate was closed.
C18_WitnessNoteOn ==
    /\ tick.ran /\ tick.startNote = -1
    /\ NoteOns(out) # <<>>
    /\ ~(now > ccSendTime + MIN_CC_INTERVAL)

C19_Tracks ==
    /\ currentPitchBend = sent.pb
    /\ currentVolume = sent.vol
    /\ currentXValue = sent.x
    /\ currentYValue = sent.y

C19_OnlyWhenSent ==
    [][/\ currentPitchBend' # currentPitchBend => (tick'.ran /\ PbMsgs(out') # <<>>)
       /\ currentVolume' # currentVolume => (tick'.ran /\ CcMsgs(out', MIDI_BREATH_CC) # <<>>)
       /\ currentXValue' # currentXValue => (tick'.ran /\ CcMsgs(out', X_CC) # <<>>)
       /\ currentYValue' # currentYValue => (tick'.ran /\ CcMsgs(out', Y_CC) # <<>>)
       /\ Controllers(out') = <<>> =>
             UNCHANGED <<currentPitchBend, currentVolume, currentXValue, currentYValue>>]_vars

\* C19: currentPitchBend, currentVolume, currentXValue and currentYValue each
\* equal the value carried by the last message emitted for that signal, or
\* the initial value (8191, 0, 0, 0) while none was emitted; each changes only
\* in a loop() that emits a message for its signal, so a loop() whose messages
\* are only note-on, note-off, panic or meta messages leaves all four as they
\* were, and currentVolume is not reset when a note ends.
C19_LastSent == []C19_Tracks /\ C19_OnlyWhenSent

\* A note has ended and the last breath value sent is still remembered.
C19_Witness ==
    /\ tick.ran /\ tick.startNote # -1 /\ currentNote = -1
    /\ out = <<NoteOffMsg(tick.startNote)>>
    /\ currentVolume = 127 /\ sent.vol = 127

\* C20: allNotesOff() does not change currentNote.  A loop() with the panic
\* switch pressed that starts with note n sounding, breath above the
\* threshold and a chord that decodes to n or to nothing sends the panic
\* note-off for n and ends with n still the current note; and every loop(),
\* after a panic or not, that starts with n sounding and has such readings
\* sends no note-on and no note-off of its own and keeps n.
C20_PanicKeepsNote ==
    [][(/\ tick'.ran
        /\ currentNote # -1
        /\ tick'.volume # 0
        /\ tick'.note = currentNote) =>
          /\ currentNote' = currentNote
          /\ NoteOns(out') = <<>>
          /\ NoteOffs(out') = <<>>
          /\ tick'.panic =>
                \E i \in DOMAIN out' : out'[i] = Msg("off", PANIC_CHANNEL, currentNote, 0)]_vars

\* A loop() with the panic switch pressed has kept its note.
C20_Witness ==
    /\ tick.ran /\ tick.panic
    /\ tick.startNote # -1 /\ tick.volume # 0
    /\ currentNote = tick.startNote
    /\ NoteOns(out) = <<>>
    /\ Len(out) >= NumMidiNotes /\ SubSeq(out, 1, NumMidiNotes) = PanicMsgs

====
